---- MODULE Spec2Model ----
(***************************************************************************)
(* Data-access layer between application records (ORF articles, matched    *)
(* Reddit posts) and an InfluxDB bucket: src/influx_io_updated.py and the  *)
(* older src/influx_io.py.                                                 *)
(*                                                                         *)
(* Python values are tagged records; a Python string is a sequence of      *)
(* one-character strings, so strip(), replace(), int() and float() are     *)
(* computed character by character.  A timestamp is a whole number of      *)
(* seconds since the epoch.  An ISO-8601 string is written over a reduced  *)
(* alphabet: the local time as decimal digits, followed by nothing (a      *)
(* naive time), by "Z", or by a sign and one digit (the UTC offset, in     *)
(* seconds).  A float is kept in tenths.                                   *)
(***************************************************************************)
EXTENDS Integers, Sequences, FiniteSets, TLC

VARIABLES
    store,   \* the bucket: a set of points, one per (measurement, tags, time)
    now,     \* the wall clock read by datetime.now(timezone.utc)
    tz,      \* UTC offset of the process's local time zone (naive datetimes)
    input,   \* the call the caller is about to make: [op, rows]
    last,    \* what the last completed call did and returned
    prev,    \* the bucket as it was before the last completed call
    runs     \* creation writes of `input` that reached the bucket: 0, 1, or 2 for more

vars == <<store, now, tz, input, last, prev, runs>>

(***************************************************************************)
(* Bounds of the model.                                                    *)
(***************************************************************************)
MaxBatch == 2   \* longest list handed to a write operation
MaxRows == 3    \* longest query response handed to the article read
MaxNow == 1     \* number of times the clock advances

(***************************************************************************)
(* Python values.                                                          *)
(***************************************************************************)
None == [t |-> "none"]
Str(s) == [t |-> "str", s |-> s]
PyInt(n) == [t |-> "int", n |-> n]
PyFloat(d) == [t |-> "float", d |-> d]
Datetime(u) == [t |-> "datetime", u |-> u]
ValueError == [t |-> "ValueError"]

Whitespace == {" "}
DigitChars == <<"0", "1", "2", "3", "4", "5", "6", "7", "8", "9">>
IsDigit(c) == \E i \in 1..10 : DigitChars[i] = c
DigitValue(c) == (CHOOSE i \in 1..10 : DigitChars[i] = c) - 1

\* bool(x)
Truthy(v) ==
    CASE v.t = "none" -> FALSE
      [] v.t = "str" -> v.s # <<>>
      [] v.t = "int" -> v.n # 0
      [] v.t = "float" -> v.d # 0
      [] OTHER -> TRUE

\* a or b
Or(a, b) == IF Truthy(a) THEN a ELSE b

\* r.get(k): a key the dict does not hold reads as None
Get(r, k) == IF k \in DOMAIN r THEN r[k] ELSE None

RECURSIVE Digits(_)
Digits(n) == IF n < 10 THEN <<DigitChars[n + 1]>>
             ELSE Digits(n \div 10) \o <<DigitChars[(n % 10) + 1]>>

Decimal(n) == IF n < 0 THEN <<"-">> \o Digits(-n) ELSE Digits(n)

\* str(x), as a character sequence
PyStr(v) ==
    CASE v.t = "none" -> <<"N", "o", "n", "e">>
      [] v.t = "str" -> v.s
      [] v.t = "int" -> Decimal(v.n)
      [] v.t = "float" ->
            (IF v.d < 0 THEN <<"-">> ELSE <<>>)
            \o Digits((IF v.d < 0 THEN -v.d ELSE v.d) \div 10)
            \o <<".">> \o Digits((IF v.d < 0 THEN -v.d ELSE v.d) % 10)
      [] v.t = "datetime" -> Decimal(v.u) \o <<"+", "0">>

RECURSIVE LStrip(_)
LStrip(s) == IF s # <<>> /\ Head(s) \in Whitespace THEN LStrip(Tail(s)) ELSE s

RECURSIVE RStrip(_)
RStrip(s) == IF s # <<>> /\ s[Len(s)] \in Whitespace
             THEN RStrip(SubSeq(s, 1, Len(s) - 1)) ELSE s

\* s.strip()
Strip(s) == RStrip(LStrip(s))

\* s.replace(c, by) for a one-character c
RECURSIVE Replace(_, _, _)
Replace(s, c, by) ==
    IF s = <<>> THEN <<>>
    ELSE (IF Head(s) = c THEN by ELSE <<Head(s)>>) \o Replace(Tail(s), c, by)

AllDigits(s) == s # <<>> /\ \A i \in 1..Len(s) : IsDigit(s[i])

RECURSIVE DigitsValue(_)
DigitsValue(s) == IF s = <<>> THEN 0
                  ELSE 10 * DigitsValue(SubSeq(s, 1, Len(s) - 1)) + DigitValue(s[Len(s)])

HasSign(s) == s # <<>> /\ Head(s) \in {"+", "-"}
Unsigned(s) == IF HasSign(s) THEN Tail(s) ELSE s
Signed(s, n) == IF s # <<>> /\ Head(s) = "-" THEN -n ELSE n

\* position of the first "." of s, 0 when it has none
DotAt(s) == IF \E i \in 1..Len(s) : s[i] = "."
            THEN CHOOSE i \in 1..Len(s) : s[i] = "." /\ \A j \in 1..(i - 1) : s[j] # "."
            ELSE 0

\* float(x), in tenths; ValueError for a string that is no number
float(v) ==
    CASE v.t = "int" -> PyFloat(10 * v.n)
      [] v.t = "float" -> v
      [] v.t = "str" ->
            LET b == Unsigned(Strip(v.s))
                d == DotAt(b)
                whole == IF d = 0 THEN b ELSE SubSeq(b, 1, d - 1)
                frac == IF d = 0 THEN <<"0">> ELSE SubSeq(b, d + 1, Len(b))
            IN IF AllDigits(whole) /\ Len(frac) = 1 /\ AllDigits(frac)
               THEN PyFloat(Signed(Strip(v.s), 10 * DigitsValue(whole) + DigitsValue(frac)))
               ELSE ValueError
      [] OTHER -> ValueError

\* int(x): a float truncates toward zero; ValueError for a string that is no integer
int(v) ==
    CASE v.t = "int" -> v
      [] v.t = "float" -> PyInt(IF v.d >= 0 THEN v.d \div 10 ELSE -((-v.d) \div 10))
      [] v.t = "str" ->
            LET b == Unsigned(Strip(v.s))
            IN IF AllDigits(b) THEN PyInt(Signed(Strip(v.s), DigitsValue(b)))
               ELSE ValueError
      [] OTHER -> ValueError

(***************************************************************************)
(* Helpers of the module.                                                  *)
(***************************************************************************)
\* _clean_usid(x): None stays None, the empty string after strip() becomes None
_clean_usid(x) ==
    IF x.t = "none" THEN None
    ELSE LET s == Strip(PyStr(x)) IN IF s # <<>> THEN Str(s) ELSE None

\* datetime.fromisoformat(s) on the reduced alphabet: [local, off] with
\* off = None for a naive time, or ValueError.  "Z" is no offset it reads.
fromisoformat(s) ==
    LET n == Len(s) IN
    IF AllDigits(s) THEN [t |-> "parsed", local |-> DigitsValue(s), off |-> None]
    ELSE IF /\ n >= 3
            /\ s[n - 1] \in {"+", "-"}
            /\ IsDigit(s[n])
            /\ AllDigits(SubSeq(s, 1, n - 2))
         THEN [t |-> "parsed",
               local |-> DigitsValue(SubSeq(s, 1, n - 2)),
               off |-> PyInt(IF s[n - 1] = "-" THEN -DigitValue(s[n]) ELSE DigitValue(s[n]))]
         ELSE ValueError

\* dt.astimezone(timezone.utc): a naive time is taken as local time
astimezone_utc(dt) ==
    Datetime(dt.local - (IF dt.off.t = "none" THEN tz ELSE dt.off.n))

\* _parse_iso without its replace("Z", "+00:00"): a "Z" suffix does not parse
_parse_iso_no_z(dt_str) ==
    IF ~Truthy(dt_str) THEN Datetime(now)
    ELSE LET parsed == fromisoformat(PyStr(dt_str))
         IN IF parsed.t = "ValueError" THEN Datetime(now) ELSE astimezone_utc(parsed)

\* _parse_iso(dt_str) of influx_io_updated.py
_parse_iso(dt_str) ==
    IF ~Truthy(dt_str) THEN Datetime(now)
    ELSE LET parsed == fromisoformat(Replace(PyStr(dt_str), "Z", <<"+", "0">>))
         IN IF parsed.t = "ValueError" THEN Datetime(now) ELSE astimezone_utc(parsed)

\* _parse_iso(dt_str) of influx_io.py: dt_str.replace is no method of a non-string
legacy_parse_iso(dt_str) ==
    IF ~Truthy(dt_str) THEN Datetime(now)
    ELSE IF dt_str.t # "str" THEN Datetime(now)
    ELSE LET parsed == fromisoformat(Replace(dt_str.s, "Z", <<"+", "0">>))
         IN IF parsed.t = "ValueError" THEN Datetime(now) ELSE astimezone_utc(parsed)

\* _parse_unix_utc_seconds falling back to the clock, as _parse_iso does
_parse_unix_utc_seconds_or_now(x) ==
    IF x.t = "none" \/ x = Str(<<>>) THEN Datetime(now)
    ELSE LET f == float(x)
         IN IF f.t = "ValueError" THEN Datetime(now) ELSE Datetime(int(f).n)

\* _parse_unix_utc_seconds(x)
_parse_unix_utc_seconds(x) ==
    IF x.t = "none" \/ x = Str(<<>>) THEN None
    ELSE LET f == float(x)
         IN IF f.t = "ValueError" THEN None ELSE Datetime(int(f).n)

ClipLimit == 8000
Ellipsis == "..."   \* the one character U+2026

\* _clip(s, n)
_clip(s, n) == IF Len(s) <= n THEN s ELSE SubSeq(s, 1, n) \o <<Ellipsis>>

(***************************************************************************)
(* Points and the bucket.  A point is identified by its measurement, its   *)
(* tag set and its timestamp; writing a point whose identity the bucket    *)
(* already holds merges the fields, the written value winning.             *)
(***************************************************************************)
Point(m, tags, fields, dt) ==
    [measurement |-> m, tags |-> tags, fields |-> fields, time |-> dt.u]

Key(p) == [measurement |-> p.measurement, tags |-> p.tags, time |-> p.time]

Keys(st) == {Key(p) : p \in st}

MergeFields(old, new) ==
    [k \in DOMAIN old \cup DOMAIN new |-> IF k \in DOMAIN new THEN new[k] ELSE old[k]]

WritePoint(st, p) ==
    IF \E q \in st : Key(q) = Key(p)
    THEN LET q == CHOOSE q \in st : Key(q) = Key(p)
         IN (st \ {q}) \cup {[q EXCEPT !.fields = MergeFields(q.fields, p.fields)]}
    ELSE st \cup {p}

RECURSIVE WriteBatch(_, _)
WriteBatch(st, points) ==
    IF points = <<>> THEN st ELSE WriteBatch(WritePoint(st, Head(points)), Tail(points))

\* what building a list of points comes to: the points, or the exception raised
Built(points) == [raised |-> FALSE, points |-> points]
Raised == [raised |-> TRUE, points |-> <<>>]

\* what one pass of a "for r in rows" loop body comes to: a point appended,
\* the row skipped ("continue"), or an exception (ValueError)
Skip == [t |-> "skip"]
Append1(p) == [t |-> "point", p |-> p]

\* the loop after its first pass came to b and the remaining passes to rest:
\* an exception leaves the loop at once
Then(b, rest) ==
    IF b.t = "ValueError" THEN Raised
    ELSE IF rest.raised THEN Raised
    ELSE IF b.t = "skip" THEN rest
    ELSE Built(<<b.p>> \o rest.points)

(***************************************************************************)
(* write_points(points): no client is opened for an empty batch; else one  *)
(* client, one write call, whose failure propagates.  `ok` says whether    *)
(* the bucket accepts the call.                                            *)
(***************************************************************************)
StoreError == [t |-> "StoreError"]

\* write_points without its early return on an empty list
write_points_no_empty_check(points, st, ok) ==
    IF ok
    THEN [ret |-> PyInt(Len(points)), store |-> WriteBatch(st, points),
          opened |-> 1, calls |-> 1]
    ELSE [ret |-> StoreError, store |-> st, opened |-> 1, calls |-> 1]

\* write_points that catches the client's exception and returns 0
write_points_swallow(points, st, ok) ==
    IF points = <<>>
    THEN [ret |-> PyInt(0), store |-> st, opened |-> 0, calls |-> 0]
    ELSE IF ok
    THEN [ret |-> PyInt(Len(points)), store |-> WriteBatch(st, points),
          opened |-> 1, calls |-> 1]
    ELSE [ret |-> PyInt(0), store |-> st, opened |-> 1, calls |-> 1]

\* write_points(points): ok is whether the bucket takes the batch
write_points(points, st, ok) ==
    IF points = <<>>
    THEN [ret |-> PyInt(0), store |-> st, opened |-> 0, calls |-> 0]
    ELSE IF ok
    THEN [ret |-> PyInt(Len(points)), store |-> WriteBatch(st, points),
          opened |-> 1, calls |-> 1]
    ELSE [ret |-> StoreError, store |-> st, opened |-> 1, calls |-> 1]

\* the end of write_orf_articles in influx_io.py, which writes inline
legacy_write(points, st, ok) ==
    IF points = <<>>
    THEN [ret |-> PyInt(0), store |-> st, opened |-> 0, calls |-> 0]
    ELSE IF ok
    THEN [ret |-> PyInt(Len(points)), store |-> WriteBatch(st, points),
          opened |-> 1, calls |-> 1]
    ELSE [ret |-> StoreError, store |-> st, opened |-> 1, calls |-> 1]

(***************************************************************************)
(* The point builders.                                                     *)
(***************************************************************************)
Empty == Str(<<>>)
Unknown == Str(<<"u", "n", "k", "n", "o", "w", "n">>)

\* str(r.get(k) or "")
StrOrEmpty(r, k) == PyStr(Or(Get(r, k), Empty))

\* body of the loop of write_orf_articles
orf_article_point(it) ==
    LET usid == _clean_usid(Get(it, "usid")) IN
    IF ~Truthy(usid) THEN Skip
    ELSE LET dt == _parse_iso(Or(Get(it, "date"), Empty))
             category == PyStr(Or(Get(it, "oewaCategory"), Unknown))
         IN Append1(Point("orf_article",
                          [category |-> category, usid |-> usid.s],
                          [title |-> Str(StrOrEmpty(it, "title")),
                           link |-> Str(StrOrEmpty(it, "link"))],
                          dt))

RECURSIVE orf_article_points(_)
orf_article_points(items) ==
    IF items = <<>> THEN Built(<<>>)
    ELSE Then(orf_article_point(Head(items)), orf_article_points(Tail(items)))

\* body of the loop of write_orf_articles in influx_io.py
legacy_orf_article_point(it) ==
    LET usid == _clean_usid(Get(it, "usid")) IN
    IF ~Truthy(usid) THEN Skip
    ELSE LET dt == legacy_parse_iso(Or(Get(it, "date"), Empty))
             category == PyStr(Or(Get(it, "oewaCategory"), Unknown))
         IN Append1(Point("orf_article",
                          [category |-> category, usid |-> usid.s],
                          [title |-> Str(StrOrEmpty(it, "title")),
                           link |-> Str(StrOrEmpty(it, "link"))],
                          dt))

RECURSIVE legacy_orf_article_points(_)
legacy_orf_article_points(items) ==
    IF items = <<>> THEN Built(<<>>)
    ELSE Then(legacy_orf_article_point(Head(items)),
              legacy_orf_article_points(Tail(items)))

\* body of the loop of write_reddit_matches; `now` is read once, before the loop
reddit_match_point(r) ==
    LET usid == _clean_usid(Get(r, "article_usid"))
        reddit_id == _clean_usid(Get(r, "reddit_id"))
    IN
    IF ~Truthy(usid) \/ ~Truthy(reddit_id) THEN Skip
    ELSE LET dt_raw == Or(Get(r, "saved_at_utc"), Empty)
             dt == IF Truthy(dt_raw) THEN _parse_iso(dt_raw) ELSE Datetime(now)
             cwc == int(Or(Get(r, "checked_word_count"), PyInt(0)))
             gmw == int(Or(Get(r, "group_matches_in_window"), PyInt(0)))
             conf == float(Or(Get(r, "stance_conf"), PyFloat(0)))
         IN IF "ValueError" \in {cwc.t, gmw.t, conf.t} THEN ValueError
            ELSE Append1(Point("reddit_post",
                               [usid |-> usid.s, source |-> StrOrEmpty(r, "source")],
                               [reddit_id |-> reddit_id,
                                title |-> Str(StrOrEmpty(r, "reddit_title")),
                                permalink |-> Str(StrOrEmpty(r, "reddit_permalink")),
                                url |-> Str(StrOrEmpty(r, "post_url")),
                                checked_word_count |-> cwc,
                                group_matches_in_window |-> gmw,
                                selftext |-> Str(_clip(StrOrEmpty(r, "reddit_selftext"), ClipLimit)),
                                stance_label |-> Str(StrOrEmpty(r, "stance_label")),
                                stance_conf |-> conf],
                               dt))

RECURSIVE reddit_match_points(_)
reddit_match_points(rows) ==
    IF rows = <<>> THEN Built(<<>>)
    ELSE Then(reddit_match_point(Head(rows)), reddit_match_points(Tail(rows)))

\* a stance update that builds the full field set of write_reddit_matches
stance_update_point_full(r) ==
    LET usid == _clean_usid(Or(Get(r, "article_usid"), Get(r, "usid"))) IN
    IF ~Truthy(usid) THEN Skip
    ELSE LET dt_raw == Or(Or(Get(r, "saved_at_utc"), Get(r, "_time")), Empty)
             dt == _parse_iso(Str(PyStr(dt_raw)))
             source == StrOrEmpty(r, "source")
             conf == float(Or(Get(r, "stance_conf"), PyFloat(0)))
         IN IF conf.t = "ValueError" THEN ValueError
            ELSE Append1(Point("reddit_post",
                               [usid |-> usid.s, source |-> source],
                               [title |-> Str(StrOrEmpty(r, "reddit_title")),
                                stance_label |-> Str(StrOrEmpty(r, "stance_label")),
                                stance_conf |-> conf],
                               dt))

\* body of the loop of write_reddit_stance_updates
stance_update_point(r) ==
    LET usid == _clean_usid(Or(Get(r, "article_usid"), Get(r, "usid"))) IN
    IF ~Truthy(usid) THEN Skip
    ELSE LET dt_raw == Or(Or(Get(r, "saved_at_utc"), Get(r, "_time")), Empty)
             dt == _parse_iso(Str(PyStr(dt_raw)))
             source == StrOrEmpty(r, "source")
             conf == float(Or(Get(r, "stance_conf"), PyFloat(0)))
         IN IF conf.t = "ValueError" THEN ValueError
            ELSE Append1(Point("reddit_post",
                               [usid |-> usid.s, source |-> source],
                               [stance_label |-> Str(StrOrEmpty(r, "stance_label")),
                                stance_conf |-> conf],
                               dt))

RECURSIVE stance_update_points(_)
stance_update_points(rows) ==
    IF rows = <<>> THEN Built(<<>>)
    ELSE Then(stance_update_point(Head(rows)), stance_update_points(Tail(rows)))

\* body of the loop of reddit_rows_to_points
reddit_row_point(r) ==
    LET usid == _clean_usid(Get(r, "usid"))
        reddit_id == _clean_usid(Get(r, "reddit_id"))
    IN
    IF ~Truthy(usid) \/ ~Truthy(reddit_id) THEN Skip
    ELSE LET dt == _parse_unix_utc_seconds(Get(r, "created_utc")) IN
         IF dt.t = "none" THEN Skip
         ELSE LET cwc == int(Or(Get(r, "checked_word_count"), PyInt(0)))
                  gmw == int(Or(Get(r, "group_matches_in_window"), PyInt(0)))
              IN IF "ValueError" \in {cwc.t, gmw.t} THEN ValueError
                 ELSE Append1(Point("reddit_post",
                                    [usid |-> usid.s, source |-> StrOrEmpty(r, "source")],
                                    [reddit_id |-> reddit_id,
                                     title |-> Str(StrOrEmpty(r, "reddit_title")),
                                     permalink |-> Str(StrOrEmpty(r, "reddit_permalink")),
                                     url |-> Str(StrOrEmpty(r, "post_url")),
                                     checked_word_count |-> cwc,
                                     group_matches_in_window |-> gmw,
                                     selftext |-> Str(_clip(StrOrEmpty(r, "reddit_selftext"), ClipLimit))],
                                    dt))

RECURSIVE reddit_rows_to_points(_)
reddit_rows_to_points(rows) ==
    IF rows = <<>> THEN Built(<<>>)
    ELSE Then(reddit_row_point(Head(rows)), reddit_rows_to_points(Tail(rows)))

(***************************************************************************)
(* The reads.                                                              *)
(***************************************************************************)
\* range(start: -lookback): the points of the last `lookback` seconds
InRange(p, lookback) == now - lookback <= p.time /\ p.time <= now

\* a dedup loop without its `u not in dedup` test: the last row of a usid wins
RECURSIVE dedup_rows_last_wins(_, _)
dedup_rows_last_wins(rows, dedup) ==
    IF rows = <<>> THEN dedup
    ELSE LET r == Head(rows)
             u == _clean_usid(Get(r, "usid"))
         IN IF ~Truthy(u) THEN dedup_rows_last_wins(Tail(rows), dedup)
            ELSE IF \E i \in 1..Len(dedup) : dedup[i].k = u.s
            THEN dedup_rows_last_wins(Tail(rows),
                    [i \in 1..Len(dedup) |->
                        IF dedup[i].k = u.s THEN [k |-> u.s, v |-> r] ELSE dedup[i]])
            ELSE dedup_rows_last_wins(Tail(rows), Append(dedup, [k |-> u.s, v |-> r]))

\* the dedup loop of load_orf_articles_from_influx; the dict `dedup` is a
\* sequence of [k, v] in insertion order
RECURSIVE dedup_rows(_, _)
dedup_rows(rows, dedup) ==
    IF rows = <<>> THEN dedup
    ELSE LET r == Head(rows)
             u == _clean_usid(Get(r, "usid"))
         IN IF Truthy(u) /\ ~(\E i \in 1..Len(dedup) : dedup[i].k = u.s)
            THEN dedup_rows(Tail(rows), Append(dedup, [k |-> u.s, v |-> r]))
            ELSE dedup_rows(Tail(rows), dedup)

\* load_orf_articles_from_influx, from the records of the query's reply on
orf_rows_from_reply(reply) ==
    LET rows == [i \in 1..Len(reply) |->
                    [time |-> Get(reply[i], "_time"),
                     usid |-> Get(reply[i], "usid"),
                     title |-> Get(reply[i], "title"),
                     link |-> Get(reply[i], "link"),
                     date |-> Get(reply[i], "date")]]
        dedup == dedup_rows(rows, <<>>)
    IN [i \in 1..Len(dedup) |-> dedup[i].v]

\* the reply to the query of load_existing_reddit_ids_for_usid: the distinct
\* values of the field reddit_id over the reddit_post points tagged usid
reddit_id_values(st, usid, lookback) ==
    {p.fields.reddit_id : p \in {q \in st : /\ q.measurement = "reddit_post"
                                            /\ q.tags.usid = usid
                                            /\ "reddit_id" \in DOMAIN q.fields
                                            /\ InRange(q, lookback)}}

\* load_existing_reddit_ids_for_usid(usid, lookback): [ids, opened]
existing_reddit_ids(st, usid, lookback) ==
    LET u == _clean_usid(usid) IN
    IF ~Truthy(u) THEN [ids |-> {}, opened |-> 0]
    ELSE [ids |-> {PyStr(v) : v \in reddit_id_values(st, u.s, lookback)}, opened |-> 1]

(***************************************************************************)
(* The calls a caller makes.                                               *)
(***************************************************************************)
RECURSIVE SeqsUpTo(_, _)
SeqsUpTo(S, n) ==
    IF n = 0 THEN {<<>>}
    ELSE LET shorter == SeqsUpTo(S, n - 1)
         IN shorter \cup {Append(q, x) : q \in {r \in shorter : Len(r) = n - 1}, x \in S}

A == <<"a">>
B == <<"b">>

OrfItems == {
    [usid |-> Str(<<" ", "a", " ">>), date |-> Str(<<"1", "Z">>),
     oewaCategory |-> Str(<<"n">>), title |-> Str(<<"T">>), link |-> Str(<<"L">>)],
    [usid |-> Str(A), date |-> Str(<<"1">>), oewaCategory |-> Str(<<"n">>),
     title |-> Str(<<"U">>)],
    [usid |-> Str(B), title |-> Str(<<"T">>)],
    [usid |-> Str(<<>>), date |-> Str(<<"1", "Z">>), title |-> Str(<<"T">>)],
    [date |-> Str(<<"2", "+", "1">>), title |-> Str(<<"T">>)] }

PostRows == {
    [usid |-> Str(A), source |-> Str(<<"s">>), reddit_id |-> Str(<<"r">>),
     reddit_title |-> Str(<<"T">>), created_utc |-> PyInt(1), checked_word_count |-> PyInt(3)],
    [usid |-> Str(<<" ", "a">>), source |-> Str(<<"s">>), reddit_id |-> Str(<<"q">>),
     reddit_title |-> Str(<<"U">>), created_utc |-> PyFloat(15)],
    [usid |-> Str(B), reddit_id |-> Str(<<"r", " ">>), created_utc |-> Str(<<"2">>),
     group_matches_in_window |-> Str(<<"4">>)],
    [usid |-> Str(<<" ">>), reddit_id |-> Str(<<"r">>), created_utc |-> PyInt(1)],
    [usid |-> Str(A), source |-> Str(<<"s">>), created_utc |-> PyInt(1)],
    [usid |-> Str(B), reddit_id |-> Str(<<"q">>), created_utc |-> Str(<<"x">>)],
    [usid |-> Str(B), reddit_id |-> Str(<<"q">>), created_utc |-> PyInt(2),
     checked_word_count |-> Str(<<"x">>)] }

MatchRows == {
    [article_usid |-> Str(A), source |-> Str(<<"s">>), reddit_id |-> Str(<<"r">>),
     reddit_title |-> Str(<<"T">>), saved_at_utc |-> Str(<<"1", "Z">>)],
    [article_usid |-> Str(<<"a", " ">>), source |-> Str(<<"s">>), reddit_id |-> Str(<<"q">>),
     saved_at_utc |-> Str(<<"2", "+", "1">>), stance_label |-> Str(<<"c">>),
     stance_conf |-> Str(<<"0", ".", "5">>)],
    [article_usid |-> Str(B), reddit_id |-> Str(<<"r">>)],
    [reddit_id |-> Str(<<"r">>), saved_at_utc |-> Str(<<"1", "Z">>)],
    [article_usid |-> Str(A), reddit_id |-> Str(<<" ">>), saved_at_utc |-> Str(<<"1", "Z">>)],
    [article_usid |-> Str(B), reddit_id |-> Str(<<"r">>), saved_at_utc |-> Str(<<"1", "Z">>),
     group_matches_in_window |-> Str(<<"x">>)] }

StanceRows == {
    [usid |-> Str(A), source |-> Str(<<"s">>), _time |-> Datetime(1),
     stance_label |-> Str(<<"p">>), stance_conf |-> PyFloat(9)],
    [usid |-> Str(B), stance_label |-> Str(<<"p">>)],
    [article_usid |-> Str(B), saved_at_utc |-> Str(<<"x">>), stance_label |-> Str(<<"c">>)],
    [article_usid |-> Str(<<" ">>), usid |-> Str(A), _time |-> Datetime(1)],
    [source |-> Str(<<"s">>), _time |-> Datetime(1), stance_label |-> Str(<<"p">>)],
    [usid |-> Str(A), _time |-> Datetime(2), stance_conf |-> Str(<<"x">>)] }

ReplyRecords == {
    [_time |-> Datetime(1), usid |-> Str(A), title |-> Str(<<"T">>)],
    [_time |-> Datetime(2), usid |-> Str(<<" ", "a">>), title |-> Str(<<"U">>)],
    [_time |-> Datetime(1), usid |-> Str(B), title |-> Str(<<"T">>)],
    [_time |-> Datetime(2), usid |-> Str(<<" ">>), title |-> Str(<<"T">>)],
    [_time |-> Datetime(2), title |-> Str(<<"U">>)] }

Call(op, rows) == [op |-> op, rows |-> rows]

Inputs ==
    {Call("write_orf_articles", q) : q \in SeqsUpTo(OrfItems, MaxBatch)}
    \cup {Call("legacy_write_orf_articles", q) : q \in SeqsUpTo(OrfItems, MaxBatch)}
    \cup {Call("write_reddit_posts", q) : q \in SeqsUpTo(PostRows, MaxBatch)}
    \cup {Call("write_reddit_matches", q) : q \in SeqsUpTo(MatchRows, MaxBatch)}
    \cup {Call("write_reddit_stance_updates", q) : q \in SeqsUpTo(StanceRows, MaxBatch)}
    \cup {Call("load_orf_articles_from_influx", q) : q \in SeqsUpTo(ReplyRecords, MaxRows)}

WriteOps == {"write_orf_articles", "legacy_write_orf_articles", "write_reddit_posts",
             "write_reddit_matches", "write_reddit_stance_updates"}

Idle == [op |-> "none", ret |-> None, opened |-> 0, calls |-> 0,
         keys |-> {}, built |-> 0, stored |-> FALSE, failed |-> FALSE]

KeysOf(points) == {Key(points[i]) : i \in 1..Len(points)}

\* a write operation, from the built batch on; w is what its write of
\* built.points comes to
Written(op, built, w, stored, ok) ==
    /\ prev' = store
    /\ IF built.raised
       THEN /\ store' = store
            /\ last' = [op |-> op, ret |-> ValueError, opened |-> 0, calls |-> 0,
                        keys |-> {}, built |-> 0, stored |-> stored,
                        failed |-> FALSE]
       ELSE    /\ store' = w.store
               /\ last' = [op |-> op, ret |-> w.ret, opened |-> w.opened,
                           calls |-> w.calls, keys |-> KeysOf(built.points),
                           built |-> Len(built.points), stored |-> stored,
                           failed |-> built.points # <<>> /\ ~ok]

Reached == last'.ret.t = "int" /\ last'.calls > 0

\* one more run, counted up to "more than one"
Again(n) == IF n < 2 THEN n + 1 ELSE n

\* the local zone matters only to a call that reads a naive time
ReadsNaive(call) ==
    \E i \in 1..Len(call.rows) : \E k \in DOMAIN call.rows[i] \cap {"date", "saved_at_utc"} :
        call.rows[i][k].t = "str" /\ AllDigits(call.rows[i][k].s)

Init == /\ input \in Inputs
        /\ tz \in IF ReadsNaive(input) THEN {0, 1} ELSE {0}
        /\ store = {}
        /\ now = 3
        /\ last = Idle
        /\ prev = {}
        /\ runs = 0

\* time passes between two calls
Tick == /\ now < 3 + MaxNow
        /\ now' = now + 1
        /\ UNCHANGED <<store, tz, input, last, prev, runs>>

write_orf_articles ==
    /\ input.op = "write_orf_articles"
    /\ \E ok \in BOOLEAN :
          LET built == orf_article_points(input.rows)
          IN Written("write_orf_articles", built, write_points(built.points, store, ok), FALSE, ok)
    /\ runs' = IF Reached THEN Again(runs) ELSE runs
    /\ UNCHANGED <<now, tz, input>>

legacy_write_orf_articles ==
    /\ input.op = "legacy_write_orf_articles"
    /\ \E ok \in BOOLEAN :
          LET built == legacy_orf_article_points(input.rows)
          IN Written("legacy_write_orf_articles", built,
                     legacy_write(built.points, store, ok), FALSE, ok)
    /\ runs' = IF Reached THEN Again(runs) ELSE runs
    /\ UNCHANGED <<now, tz, input>>

write_reddit_matches ==
    /\ input.op = "write_reddit_matches"
    /\ \E ok \in BOOLEAN :
          LET built == reddit_match_points(input.rows)
          IN Written("write_reddit_matches", built, write_points(built.points, store, ok), FALSE, ok)
    /\ runs' = IF Reached THEN Again(runs) ELSE runs
    /\ UNCHANGED <<now, tz, input>>

write_reddit_posts ==
    /\ input.op = "write_reddit_posts"
    /\ \E ok \in BOOLEAN :
          LET built == reddit_rows_to_points(input.rows)
          IN Written("write_reddit_posts", built, write_points(built.points, store, ok), FALSE, ok)
    /\ runs' = IF Reached THEN Again(runs) ELSE runs
    /\ UNCHANGED <<now, tz, input>>

\* The rows a labelling run hands back for points it read from the bucket:
\* the point's usid and source, its timestamp as the datetime the query
\* returned (_time, with the key usid of load_unlabeled_reddit_posts_from_influx)
\* or as an ISO string (saved_at_utc, with the key article_usid of the match
\* rows), and the new label.
TimeForms == {"_time", "isoformat", "Z"}

StoredRow(p, timeForm) ==
    LET id == IF timeForm = "_time" THEN [usid |-> Str(p.tags.usid)]
              ELSE [article_usid |-> Str(p.tags.usid)]
        src == IF p.tags.source = <<>> THEN <<>> ELSE <<Str(p.tags.source)>>
        ts == CASE timeForm = "_time" -> [_time |-> Datetime(p.time)]
                [] timeForm = "isoformat" -> [saved_at_utc |-> Str(PyStr(Datetime(p.time)))]
                [] timeForm = "Z" -> [saved_at_utc |-> Str(Decimal(p.time) \o <<"Z">>)]
        lbl == [stance_label |-> Str(<<"p">>), stance_conf |-> PyFloat(9)]
    IN [k \in DOMAIN id \cup DOMAIN ts \cup DOMAIN lbl
              \cup (IF src = <<>> THEN {} ELSE {"source"}) |->
          IF k \in DOMAIN id THEN id[k]
          ELSE IF k \in DOMAIN ts THEN ts[k]
          ELSE IF k \in DOMAIN lbl THEN lbl[k]
          ELSE src[1]]

\* the posts of the bucket: the reddit_post points that carry a reddit_id
RedditPosts(st) ==
    {p \in st : p.measurement = "reddit_post" /\ "reddit_id" \in DOMAIN p.fields}

\* the points load_unlabeled_reddit_posts_from_influx returns rows for: the
\* reddit_post points whose stance_label is missing or empty
Unlabeled(st) ==
    {p \in RedditPosts(st) :
        "stance_label" \notin DOMAIN p.fields \/ p.fields.stance_label = Empty}

RECURSIVE SeqOf(_)
SeqOf(S) == IF S = {} THEN <<>>
            ELSE LET x == CHOOSE x \in S : TRUE IN <<x>> \o SeqOf(S \ {x})

\* a labelling run labels the unlabelled posts, or every post again
StoredBatches ==
    {[i \in 1..Len(ps) |-> StoredRow(ps[i], f)] :
        ps \in {SeqOf(Unlabeled(store)), SeqOf(RedditPosts(store))} \ {<<>>},
        f \in TimeForms}

write_reddit_stance_updates ==
    /\ \/ /\ input.op = "write_reddit_stance_updates"
          /\ \E ok \in BOOLEAN :
                LET built == stance_update_points(input.rows)
                IN Written("write_reddit_stance_updates", built,
                           write_points(built.points, store, ok), FALSE, ok)
       \/ \E rows \in StoredBatches, ok \in BOOLEAN :
                LET built == stance_update_points(rows)
                IN Written("write_reddit_stance_updates", built,
                           write_points(built.points, store, ok), TRUE, ok)
    /\ runs' = IF Reached /\ ~last'.stored THEN Again(runs) ELSE runs
    /\ UNCHANGED <<now, tz, input>>

LookupUsids == {None, Str(<<" ", "a">>)}

load_existing_reddit_ids_for_usid ==
    /\ \E usid \in LookupUsids, lookback \in {1, now} :
          LET got == existing_reddit_ids(store, usid, lookback)
          IN last' = [Idle EXCEPT !.op = "load_existing_reddit_ids_for_usid",
                                  !.ret = got.ids, !.opened = got.opened]
    /\ prev' = store
    /\ UNCHANGED <<store, now, tz, input, runs>>

load_orf_articles_from_influx ==
    /\ input.op = "load_orf_articles_from_influx"
    /\ last.op = "none"
    /\ last' = [Idle EXCEPT !.op = "load_orf_articles_from_influx",
                            !.ret = orf_rows_from_reply(input.rows), !.opened = 1]
    /\ prev' = store
    /\ UNCHANGED <<store, now, tz, input, runs>>

Next == \/ Tick
        \/ write_orf_articles
        \/ write_reddit_matches
        \/ write_reddit_posts
        \/ write_reddit_stance_updates
        \/ load_orf_articles_from_influx
        \/ load_existing_reddit_ids_for_usid
        \/ legacy_write_orf_articles

Spec == Init /\ [][Next]_vars
(***************************************************************************)
(* Properties.  A write operation's outcome is in `last`, the bucket       *)
(* before it in `prev`, the caller's list in input.rows.                   *)
(***************************************************************************)
\* a value that is an identity: present, and not empty once trimmed
Usable(v) == v.t # "none" /\ Strip(PyStr(v)) # <<>>

\* the record has the identity its operation asks for
HasIdentity(op, r) ==
    CASE op \in {"write_orf_articles", "legacy_write_orf_articles"} ->
            Usable(Get(r, "usid"))
      [] op = "write_reddit_posts" ->
            Usable(Get(r, "usid")) /\ Usable(Get(r, "reddit_id"))
      [] op = "write_reddit_matches" ->
            Usable(Get(r, "article_usid")) /\ Usable(Get(r, "reddit_id"))
      [] op = "write_reddit_stance_updates" ->
            Usable(Or(Get(r, "article_usid"), Get(r, "usid")))

\* the record has the timestamp its operation requires: only post creation
\* requires one, a number of seconds
HasTimestamp(op, r) ==
    op = "write_reddit_posts"
    => LET x == Get(r, "created_utc")
       IN x.t # "none" /\ x # Empty /\ float(x).t # "ValueError"

Complete(op, r) == HasIdentity(op, r) /\ HasTimestamp(op, r)

CompleteRows(op, rows) == {i \in 1..Len(rows) : Complete(op, rows[i])}

\* the operation ran on the caller's list and the bucket did not refuse it
RanOnInput == last.op \in WriteOps /\ ~last.stored /\ ~last.failed

StanceFields == {"stance_label", "stance_conf"}

\* C1: a stance update whose rows carry the usid, the source and the time of
\* posts of the bucket (as _time or as saved_at_utc) builds exactly the keys
\* (measurement, tags, time) of those posts: the labels are merged into the
\* posts and the bucket holds the same points as before, no more.
C1_StanceUpdateReusesIdentity ==
    (last.op = "write_reddit_stance_updates" /\ last.stored /\ last.ret.t = "int")
    => /\ last.keys \in {Keys(Unlabeled(prev)), Keys(RedditPosts(prev))}
       /\ last.ret.n = Cardinality(last.keys)
       /\ Keys(store) = Keys(prev)
       /\ Cardinality(store) = Cardinality(prev)
       /\ \A q \in store : Key(q) \in last.keys
                           => q.fields.stance_label = Str(<<"p">>)

\* a post without a label has been labelled in place
C1_Witness ==
    /\ last.op = "write_reddit_stance_updates" /\ last.stored /\ last.ret.t = "int"
    /\ \E p \in Unlabeled(prev) : \E q \in store :
          /\ Key(q) = Key(p)
          /\ q.fields.stance_label = Str(<<"p">>)
          /\ q.fields.reddit_id = p.fields.reddit_id

\* C2: running write_reddit_posts again on the same list builds the keys of
\* the first run: after the second and every later run the bucket holds the
\* keys it held before that run, which are the keys the list builds.
C2_PostRerunAddsNoPoint ==
    (last.op = "write_reddit_posts" /\ last.ret.t = "int" /\ runs >= 2)
    => /\ Keys(store) = Keys(prev)
       /\ Keys(store) = last.keys

\* a list of two accepted rows has been written twice, the clock having moved
C2_Witness ==
    /\ last.op = "write_reddit_posts" /\ runs >= 2 /\ now > 3
    /\ last.ret = PyInt(2)
    /\ store # {}

\* C3: a write operation returns a count for every list; the count is at most
\* the length of the list, and it is the length exactly when every record has
\* its identity and, for post creation, its timestamp.
C3_CountIsCompleteRows ==
    RanOnInput
    => /\ last.ret.t = "int"
       /\ last.ret.n <= Len(input.rows)
       /\ (last.ret.n = Len(input.rows)
           <=> \A i \in 1..Len(input.rows) : Complete(last.op, input.rows[i]))

\* C4: when the list has no record that is accepted (it is empty, or every
\* record lacks its identity or its required timestamp) the write operation
\* returns 0, opens no client, calls the bucket not at all and leaves it as
\* it was.
C4_NothingAcceptedNoCall ==
    (RanOnInput /\ CompleteRows(last.op, input.rows) = {})
    => /\ last.ret = PyInt(0)
       /\ last.opened = 0
       /\ last.calls = 0
       /\ store = prev

\* a list of two records without identity has been given to a write
C4_Witness ==
    /\ RanOnInput
    /\ Len(input.rows) = 2
    /\ \A i \in 1..2 : ~HasIdentity(last.op, input.rows[i])
    /\ last.ret = PyInt(0)

\* C5: a record with a bad field value never makes a write operation raise.
C5_MalformedNeverRaises ==
    last.op \in WriteOps => last.ret.t # "ValueError"

\* the time a stance row carries parses as a time
Resolvable(r) ==
    LET raw == Or(Or(Get(r, "saved_at_utc"), Get(r, "_time")), Empty)
    IN /\ Truthy(raw)
       /\ fromisoformat(Replace(PyStr(raw), "Z", <<"+", "0">>)).t # "ValueError"

\* C6: write_reddit_stance_updates counts only the rows that have an identity
\* and a time that parses; a row without such a time builds no point.
C6_NoTimestampNoPoint ==
    (last.op = "write_reddit_stance_updates" /\ ~last.stored /\ last.ret.t = "int")
    => last.ret.n = Cardinality({i \in 1..Len(input.rows) :
                                    /\ HasIdentity(last.op, input.rows[i])
                                    /\ Resolvable(input.rows[i])})

\* the trimmed usid of a record of the reply
UsidKey(r) == Strip(PyStr(Get(r, "usid")))

\* the records of the reply that are the first of their usid
Firsts(reply) ==
    {i \in 1..Len(reply) :
        /\ Usable(Get(reply[i], "usid"))
        /\ \A h \in 1..(i - 1) : ~(/\ Usable(Get(reply[h], "usid"))
                                   /\ UsidKey(reply[h]) = UsidKey(reply[i]))}

\* C7: load_orf_articles_from_influx returns one row for each distinct trimmed
\* usid of the reply, the row of the first record with that usid, in the order
\* of these first records; records without a usable usid give no row.
C7_DedupFirstOccurrence ==
    (last.op = "load_orf_articles_from_influx")
    => LET reply == input.rows
           out == last.ret
       IN /\ Len(out) = Cardinality(Firsts(reply))
          /\ \A j \in 1..Len(out) : \E i \in Firsts(reply) :
                /\ Cardinality({h \in Firsts(reply) : h < i}) = j - 1
                /\ out[j].usid = Get(reply[i], "usid")
                /\ out[j].time = Get(reply[i], "_time")
                /\ out[j].title = Get(reply[i], "title")
                /\ out[j].link = Get(reply[i], "link")
                /\ out[j].date = Get(reply[i], "date")
          /\ \A j, k \in 1..Len(out) :
                j # k => UsidKey(out[j]) # UsidKey(out[k])

\* the reply repeats a usid with another title, and has a record without usid
C7_Witness ==
    /\ last.op = "load_orf_articles_from_influx"
    /\ Len(input.rows) = 3
    /\ Len(last.ret) = 1
    /\ \E i, h \in 1..3 : /\ i < h
                          /\ h \in 1..3 \ Firsts(input.rows)
                          /\ Usable(Get(input.rows[h], "usid"))
                          /\ UsidKey(input.rows[i]) = UsidKey(input.rows[h])
                          /\ Get(input.rows[i], "title") # Get(input.rows[h], "title")
    /\ \E i \in 1..3 : ~Usable(Get(input.rows[i], "usid"))

\* C8: a write is one call to the bucket.  When the bucket refuses the batch
\* the operation ends in that error, returns no count, does not call again,
\* and the bucket is as before; when the bucket takes the batch every point
\* of it is in the bucket and the count returned is the size of the batch.
C8_AllOrNothing ==
    (last.op \in WriteOps)
    => /\ last.calls <= 1
       /\ last.failed => /\ last.ret = StoreError
                         /\ last.calls = 1
                         /\ store = prev
       /\ (last.calls = 1 /\ ~last.failed)
          => /\ last.ret = PyInt(last.built)
             /\ last.keys \subseteq Keys(store)
             /\ Keys(prev) \subseteq Keys(store)

\* the bucket, holding points already, has refused a batch of two points
C8_Witness ==
    /\ last.op \in WriteOps
    /\ last.failed
    /\ last.built = 2
    /\ last.ret = StoreError
    /\ store # {}

\* C9: after a stance update every point the bucket held is still there with
\* every field other than stance_label and stance_conf as it was, no field
\* other than these two added, and a point the update did not address is
\* the same in full.
C9_StanceUpdateChangesOnlyStance ==
    (last.op = "write_reddit_stance_updates" /\ last.ret.t = "int")
    => \A p \in prev : \E q \in store :
          /\ Key(q) = Key(p)
          /\ DOMAIN p.fields \subseteq DOMAIN q.fields
          /\ DOMAIN q.fields \ DOMAIN p.fields \subseteq StanceFields
          /\ \A f \in DOMAIN p.fields \ StanceFields : q.fields[f] = p.fields[f]
          /\ Key(p) \notin last.keys => q = p

\* a post with a title got its label while another point was not addressed
C9_Witness ==
    /\ last.op = "write_reddit_stance_updates" /\ last.ret.t = "int"
    /\ \E p \in prev : \E q \in store :
          /\ Key(q) = Key(p) /\ Key(p) \in last.keys
          /\ "reddit_id" \in DOMAIN p.fields
          /\ q.fields.reddit_id = p.fields.reddit_id
          /\ q # p
    /\ \E p \in prev : Key(p) \notin last.keys /\ p \in store

\* C10: after write_reddit_posts has written the caller's list, the lookup of
\* a usid over a window that covers the points has the reddit_id of every
\* accepted row of that usid.
C10_LookupHasEveryWrittenId ==
    (input.op = "write_reddit_posts" /\ last.op = "write_reddit_posts"
        /\ last.ret.t = "int")
    => \A i \in CompleteRows("write_reddit_posts", input.rows) :
          Strip(PyStr(Get(input.rows[i], "reddit_id")))
             \in existing_reddit_ids(store, Get(input.rows[i], "usid"), now).ids

\* C11: a rerun of a creation write (write_reddit_posts, or
\* write_reddit_matches on rows that carry their saved_at_utc) that addresses
\* a post holding a non-empty stance_label leaves that post's stance_label
\* and stance_conf as they were.
C11_RewriteKeepsLabel ==
    (/\ last.op \in {"write_reddit_posts", "write_reddit_matches"}
     /\ last.ret.t = "int" /\ runs >= 2
     /\ last.op = "write_reddit_matches"
        => \A i \in 1..Len(input.rows) : Truthy(Get(input.rows[i], "saved_at_utc")))
    => \A p \in RedditPosts(prev) :
          (/\ Key(p) \in last.keys
           /\ "stance_label" \in DOMAIN p.fields
           /\ p.fields.stance_label # Empty)
          => \E q \in store : /\ Key(q) = Key(p)
                              /\ q.fields.stance_label = p.fields.stance_label
                              /\ q.fields.stance_conf = p.fields.stance_conf
====
